---- MODULE Spec2Model ----
(* Model of rand_os/src/wasm32_bindgen.rs: the OsRng backend for wasm32    *)
(* under wasm-bindgen.  OsRng::new probes the JavaScript global object to  *)
(* choose between the Node and the Browser variant; fill_chunk delegates   *)
(* to crypto.randomFillSync or crypto.getRandomValues.                     *)
EXTENDS Integers, Sequences, FiniteSets, TLC

(***************************************************************************)
(* Bounds                                                                  *)
(***************************************************************************)
MaxLen == 2      \* longest destination buffer handed to fill_chunk
MaxFills == 2    \* number of fill_chunk calls in one behaviour

(***************************************************************************)
(* Values                                                                  *)
(***************************************************************************)
Undefined == "undefined"                 \* JsValue::undefined()
Bytes == {0, 255}                        \* sample u8 values
BrowserHandles == {"cryptoA", "cryptoB"} \* candidate values of this.crypto
NodeHandles == {"nodeCryptoA", "nodeCryptoB"} \* candidate results of require

\* usize on wasm32 is 32 bits wide; a usize is kept as two 16-bit limbs
\* <<hi, lo>> so that usize::max_value() stays representable.
LimbBase == 2^16
ToUsize(n) == <<n \div LimbBase, n % LimbBase>>
UsizeLeq(a, b) == a[1] < b[1] \/ (a[1] = b[1] /\ a[2] <= b[2])
usize_max_value == <<LimbBase - 1, LimbBase - 1>>

Buffers == UNION {[1..n -> Bytes] : n \in 0..MaxLen}

\* The JavaScript environment the module is instantiated in.
Globals ==
  [this : {Undefined, "globalThis"},
   self : {Undefined, "self"},
   crypto : {Undefined} \cup BrowserHandles,
   getRandomValues : {Undefined, "function"},
   nodeModule : NodeHandles]

NoRng == [variant |-> "None", handle |-> "None"]
NoErr == [kind |-> "None", msg |-> ""]
NoCall == [fn |-> "none", handle |-> "None", buf |-> <<>>]

Node(n) == [variant |-> "Node", handle |-> n]
Browser(c) == [variant |-> "Browser", handle |-> c]
ErrorNew(kind, msg) == [kind |-> kind, msg |-> msg]

\* extern "C" require(s): the module the host binds to the name s
node_require(g, s) == IF s = "crypto" THEN g.nodeModule ELSE Undefined

(***************************************************************************)
(* OsRng::new                                                              *)
(***************************************************************************)
\* Result of a run of OsRng::new in environment g: the outcome ("ok",
\* "err", or "panic" for the failed assert!), the value returned, and the
\* sequence of environment accesses in program order.
New_NoFnCheck(g) ==
  IF g.this = Undefined
  THEN [outcome |-> "panic", rng |-> NoRng, err |-> NoErr, probes |-> <<"this">>]
  ELSE IF ~(g.self # Undefined)
  THEN [outcome |-> "ok", rng |-> Node(node_require(g, "crypto")), err |-> NoErr,
        probes |-> <<"this", "self", "require">>]
  ELSE IF g.crypto = Undefined
  THEN [outcome |-> "err", rng |-> NoRng,
        err |-> ErrorNew("Unavailable", "self.crypto is undefined"),
        probes |-> <<"this", "self", "crypto">>]
  ELSE [outcome |-> "ok", rng |-> Browser(g.crypto), err |-> NoErr,
        probes |-> <<"this", "self", "crypto">>]

New_NoCryptoCheck(g) ==
  IF g.this = Undefined
  THEN [outcome |-> "panic", rng |-> NoRng, err |-> NoErr, probes |-> <<"this">>]
  ELSE IF ~(g.self # Undefined)
  THEN [outcome |-> "ok", rng |-> Node(node_require(g, "crypto")), err |-> NoErr,
        probes |-> <<"this", "self", "require">>]
  ELSE IF g.getRandomValues = Undefined
  THEN [outcome |-> "err", rng |-> NoRng,
        err |-> ErrorNew("Unavailable", "crypto.getRandomValues is undefined"),
        probes |-> <<"this", "self", "crypto", "getRandomValues">>]
  ELSE [outcome |-> "ok", rng |-> Browser(g.crypto), err |-> NoErr,
        probes |-> <<"this", "self", "crypto", "getRandomValues">>]

New_CryptoFirst(g) ==
  IF g.this = Undefined
  THEN [outcome |-> "panic", rng |-> NoRng, err |-> NoErr, probes |-> <<"this">>]
  ELSE IF g.crypto = Undefined
  THEN [outcome |-> "ok", rng |-> Node(node_require(g, "crypto")), err |-> NoErr,
        probes |-> <<"this", "crypto", "require">>]
  ELSE IF g.getRandomValues = Undefined
  THEN [outcome |-> "err", rng |-> NoRng,
        err |-> ErrorNew("Unavailable", "crypto.getRandomValues is undefined"),
        probes |-> <<"this", "crypto", "getRandomValues">>]
  ELSE [outcome |-> "ok", rng |-> Browser(g.crypto), err |-> NoErr,
        probes |-> <<"this", "crypto", "getRandomValues">>]

New_RequireFallback(g) ==
  IF g.this = Undefined
  THEN [outcome |-> "panic", rng |-> NoRng, err |-> NoErr, probes |-> <<"this">>]
  ELSE IF ~(g.self # Undefined)
  THEN [outcome |-> "ok", rng |-> Node(node_require(g, "crypto")), err |-> NoErr,
        probes |-> <<"this", "self", "require">>]
  ELSE IF g.crypto = Undefined
  THEN [outcome |-> "err", rng |-> NoRng,
        err |-> ErrorNew("Unavailable", "self.crypto is undefined"),
        probes |-> <<"this", "self", "crypto">>]
  ELSE IF g.getRandomValues = Undefined
  THEN [outcome |-> "ok", rng |-> Node(node_require(g, "crypto")), err |-> NoErr,
        probes |-> <<"this", "self", "crypto", "getRandomValues", "require">>]
  ELSE [outcome |-> "ok", rng |-> Browser(g.crypto), err |-> NoErr,
        probes |-> <<"this", "self", "crypto", "getRandomValues">>]

New_NoAssert(g) ==
  IF g.this = Undefined \/ ~(g.self # Undefined)
  THEN [outcome |-> "ok", rng |-> Node(node_require(g, "crypto")), err |-> NoErr,
        probes |-> <<"this", "self", "require">>]
  ELSE IF g.crypto = Undefined
  THEN [outcome |-> "err", rng |-> NoRng,
        err |-> ErrorNew("Unavailable", "self.crypto is undefined"),
        probes |-> <<"this", "self", "crypto">>]
  ELSE IF g.getRandomValues = Undefined
  THEN [outcome |-> "err", rng |-> NoRng,
        err |-> ErrorNew("Unavailable", "crypto.getRandomValues is undefined"),
        probes |-> <<"this", "self", "crypto", "getRandomValues">>]
  ELSE [outcome |-> "ok", rng |-> Browser(g.crypto), err |-> NoErr,
        probes |-> <<"this", "self", "crypto", "getRandomValues">>]

New(g) ==
  IF g.this = Undefined
  THEN [outcome |-> "panic", rng |-> NoRng, err |-> NoErr, probes |-> <<"this">>]
  ELSE IF ~(g.self # Undefined)
  THEN [outcome |-> "ok", rng |-> Node(node_require(g, "crypto")), err |-> NoErr,
        probes |-> <<"this", "self", "require">>]
  ELSE IF g.crypto = Undefined
  THEN [outcome |-> "err", rng |-> NoRng,
        err |-> ErrorNew("Unavailable", "self.crypto is undefined"),
        probes |-> <<"this", "self", "crypto">>]
  ELSE IF g.getRandomValues = Undefined
  THEN [outcome |-> "err", rng |-> NoRng,
        err |-> ErrorNew("Unavailable", "crypto.getRandomValues is undefined"),
        probes |-> <<"this", "self", "crypto", "getRandomValues">>]
  ELSE [outcome |-> "ok", rng |-> Browser(g.crypto), err |-> NoErr,
        probes |-> <<"this", "self", "crypto", "getRandomValues">>]

(***************************************************************************)
(* The delegates and OsRng::fill_chunk                                     *)
(***************************************************************************)
\* extern randomFillSync / getRandomValues: overwrite every element of the
\* slice they are given with the bytes src the entropy source produces.
random_fill_sync(buf, src) == [i \in 1..Len(buf) |-> src[i]]
get_random_values(buf, src) == [i \in 1..Len(buf) |-> src[i]]

\* Result of fill_chunk on rng r with destination d while the entropy
\* source produces src: the buffer on return, the value returned and the
\* delegate calls made.
fill_chunk_Partial(r, d, src) ==
  LET n == IF Len(d) = 0 THEN 0 ELSE Len(d) - 1
      head == SubSeq(d, 1, n)
      tail == SubSeq(d, n + 1, Len(d))
  IN IF r.variant = "Node"
     THEN [self |-> r, dest |-> random_fill_sync(head, src) \o tail, ret |-> "Ok",
           calls |-> <<[fn |-> "randomFillSync", handle |-> r.handle, buf |-> head]>>]
     ELSE [self |-> r, dest |-> get_random_values(head, src) \o tail, ret |-> "Ok",
           calls |-> <<[fn |-> "getRandomValues", handle |-> r.handle, buf |-> head]>>]

fill_chunk_Swapped(r, d, src) ==
  IF r.variant = "Node"
  THEN [self |-> r, dest |-> get_random_values(d, src), ret |-> "Ok",
        calls |-> <<[fn |-> "getRandomValues", handle |-> r.handle, buf |-> d]>>]
  ELSE [self |-> r, dest |-> random_fill_sync(d, src), ret |-> "Ok",
        calls |-> <<[fn |-> "randomFillSync", handle |-> r.handle, buf |-> d]>>]

fill_chunk_Rebind(r, d, src) ==
  IF r.variant = "Node"
  THEN [self |-> Browser(r.handle), dest |-> random_fill_sync(d, src), ret |-> "Ok",
        calls |-> <<[fn |-> "randomFillSync", handle |-> r.handle, buf |-> d]>>]
  ELSE [self |-> Node(r.handle), dest |-> get_random_values(d, src), ret |-> "Ok",
        calls |-> <<[fn |-> "getRandomValues", handle |-> r.handle, buf |-> d]>>]

\* self is the OsRng after the call (fill_chunk takes &mut self).
fill_chunk(r, d, src) ==
  IF r.variant = "Node"
  THEN [self |-> r, dest |-> random_fill_sync(d, src), ret |-> "Ok",
        calls |-> <<[fn |-> "randomFillSync", handle |-> r.handle, buf |-> d]>>]
  ELSE [self |-> r, dest |-> get_random_values(d, src), ret |-> "Ok",
        calls |-> <<[fn |-> "getRandomValues", handle |-> r.handle, buf |-> d]>>]

(***************************************************************************)
(* OsRng::max_chunk_size and OsRng::method_str                             *)
(***************************************************************************)
BrowserMaxChunk == 65536

max_chunk_size_Uniform(r) == ToUsize(BrowserMaxChunk)

max_chunk_size(r) ==
  IF r.variant = "Node" THEN usize_max_value ELSE ToUsize(BrowserMaxChunk)

method_str_Swapped(r) ==
  IF r.variant = "Node" THEN "crypto.getRandomValues" ELSE "crypto.randomFillSync"

method_str(r) ==
  IF r.variant = "Node" THEN "crypto.randomFillSync" ELSE "crypto.getRandomValues"

(***************************************************************************)
(* State                                                                   *)
(***************************************************************************)
VARIABLES
  global,        \* the JavaScript environment
  pc,            \* "start", then the outcome of OsRng::new
  rng,           \* the OsRng value new returned, NoRng if none
  err,           \* the Error new returned, NoErr if none
  probes,        \* environment accesses made so far, in order
  op,            \* the operation that ran last
  destIn,        \* the caller's buffer on entry to the last fill_chunk
  dest,          \* the caller's buffer on return from the last fill_chunk
  written,       \* the bytes the entropy source produced for that call
  lastCall,      \* the last delegate invocation
  nodeCalls,     \* number of randomFillSync invocations
  browserCalls,  \* number of getRandomValues invocations
  retFill,       \* value returned by the last fill_chunk
  retSize,       \* value returned by the last max_chunk_size
  retStr         \* value returned by the last method_str

vars == <<global, pc, rng, err, probes, op, destIn, dest, written, lastCall,
          nodeCalls, browserCalls, retFill, retSize, retStr>>

Init ==
  /\ global \in Globals
  /\ pc = "start"
  /\ rng = NoRng
  /\ err = NoErr
  /\ probes = <<>>
  /\ op = "none"
  /\ destIn = <<>>
  /\ dest = <<>>
  /\ written = <<>>
  /\ lastCall = NoCall
  /\ nodeCalls = 0
  /\ browserCalls = 0
  /\ retFill = "none"
  /\ retSize = ToUsize(0)
  /\ retStr = ""

CountFn(calls, f) == Cardinality({i \in 1..Len(calls) : calls[i].fn = f})

\* OsRngImpl::new()
Construct ==
  /\ pc = "start"
  /\ LET r == New(global)
     IN /\ pc' = r.outcome
        /\ rng' = r.rng
        /\ err' = r.err
        /\ probes' = probes \o r.probes
  /\ op' = "new"
  /\ UNCHANGED <<global, destIn, dest, written, lastCall, nodeCalls,
                 browserCalls, retFill, retSize, retStr>>

\* self.fill_chunk(dest)
FillChunk ==
  /\ pc = "ok"
  /\ nodeCalls + browserCalls < MaxFills
  /\ \E d \in Buffers :
       \E src \in [1..Len(d) -> Bytes] :
         LET r == fill_chunk(rng, d, src)
         IN /\ rng' = r.self
            /\ destIn' = d
            /\ written' = src
            /\ dest' = r.dest
            /\ retFill' = r.ret
            /\ lastCall' = IF Len(r.calls) = 0 THEN lastCall
                           ELSE r.calls[Len(r.calls)]
            /\ nodeCalls' = nodeCalls + CountFn(r.calls, "randomFillSync")
            /\ browserCalls' = browserCalls + CountFn(r.calls, "getRandomValues")
  /\ op' = "fill_chunk"
  /\ UNCHANGED <<global, pc, err, probes, retSize, retStr>>

\* self.max_chunk_size()
MaxChunkSize ==
  /\ pc = "ok"
  /\ retSize' = max_chunk_size(rng)
  /\ op' = "max_chunk_size"
  /\ UNCHANGED <<global, pc, rng, err, probes, destIn, dest, written,
                 lastCall, nodeCalls, browserCalls, retFill, retStr>>

\* self.method_str()
MethodStr ==
  /\ pc = "ok"
  /\ retStr' = method_str(rng)
  /\ op' = "method_str"
  /\ UNCHANGED <<global, pc, rng, err, probes, destIn, dest, written,
                 lastCall, nodeCalls, browserCalls, retFill, retSize>>

Next == Construct \/ FillChunk \/ MaxChunkSize \/ MethodStr

Spec == Init /\ [][Next]_vars

(***************************************************************************)
(* Properties                                                              *)
(***************************************************************************)
Constructed == pc # "start"
HasThis == global.this # Undefined
HasSelf == global.self # Undefined
HasCrypto == global.crypto # Undefined
HasFn == global.getRandomValues # Undefined
Occurs(x, seq) == \E i \in 1..Len(seq) : seq[i] = x

C2_CryptoUndefinedError ==
  (Constructed /\ HasThis /\ HasSelf /\ ~HasCrypto) =>
     /\ pc = "err"
     /\ err.kind = "Unavailable"
     /\ err.msg = "self.crypto is undefined"
     /\ rng = NoRng

C2_Witness ==
  /\ pc = "err" /\ op = "new"
  /\ HasThis /\ HasSelf /\ ~HasCrypto
  /\ err.msg = "self.crypto is undefined"

\* C3: without a `self` property new succeeds with the Node variant bound
\* to the result of require("crypto") and reads neither `crypto` nor the
\* getRandomValues reference, whatever those hold.
C3_NoSelfGivesNode ==
  (Constructed /\ HasThis /\ ~HasSelf) =>
     /\ pc = "ok"
     /\ rng.variant = "Node"
     /\ rng.handle = global.nodeModule
     /\ err = NoErr
     /\ Occurs("require", probes)
     /\ ~Occurs("crypto", probes)
     /\ ~Occurs("getRandomValues", probes)

C3_Witness ==
  /\ pc = "ok" /\ op = "new"
  /\ HasThis /\ ~HasSelf /\ HasCrypto /\ HasFn
  /\ rng = Node(global.nodeModule)

\* C4: new succeeds with the Browser variant exactly when `self`, `crypto`
\* and the getRandomValues reference are all defined; the variant is bound
\* to that crypto object and require("crypto") is not called on this path.
C4_BrowserIffCapable ==
  Constructed =>
     /\ (pc = "ok" /\ rng.variant = "Browser")
          <=> (HasThis /\ HasSelf /\ HasCrypto /\ HasFn)
     /\ rng.variant = "Browser" =>
          /\ pc = "ok"
          /\ rng.handle = global.crypto
          /\ ~Occurs("require", probes)

C4_Witness ==
  /\ pc = "ok" /\ op = "new"
  /\ HasThis /\ HasSelf /\ HasCrypto /\ HasFn
  /\ rng = Browser(global.crypto)

\* C5: whatever calls preceded it, max_chunk_size returns 65536 for the
\* Browser variant and usize::MAX (2^32 - 1 on wasm32) for the Node variant.
C5_MaxChunkSize ==
  op = "max_chunk_size" =>
     /\ rng.variant = "Browser" => retSize = <<1, 0>>
     /\ rng.variant = "Node" => retSize = <<65535, 65535>>
     /\ rng.variant \in {"Browser", "Node"}

C5_Witness ==
  /\ op = "max_chunk_size"
  /\ rng.variant = "Browser"
  /\ browserCalls > 0
  /\ retStr # ""
  /\ retSize = <<1, 0>>

\* C6: for either variant and a buffer no longer than max_chunk_size,
\* fill_chunk returns Ok, leaves the buffer's length unchanged, and every
\* byte of the buffer is the byte the delegate wrote.
C6_FillOverwritesAll ==
  (op = "fill_chunk" /\ UsizeLeq(ToUsize(Len(destIn)), max_chunk_size(rng))) =>
     /\ retFill = "Ok"
     /\ Len(dest) = Len(destIn)
     /\ Len(written) = Len(destIn)
     /\ \A i \in 1..Len(destIn) : dest[i] = written[i]

C6_Witness ==
  /\ op = "fill_chunk"
  /\ rng.variant = "Node"
  /\ Len(destIn) >= 2
  /\ \A i \in 1..Len(destIn) : destIn[i] = 0 /\ dest[i] = 255
  /\ retFill = "Ok"

\* C7: method_str returns "crypto.randomFillSync" for Node and
\* "crypto.getRandomValues" for Browser, never the empty string, the same
\* label on every call, and a call changes nothing but the returned value
\* and invokes no delegate.
C7_MethodStrPure ==
  /\ [](op = "method_str" =>
          /\ rng.variant = "Node" => retStr = "crypto.randomFillSync"
          /\ rng.variant = "Browser" => retStr = "crypto.getRandomValues"
          /\ retStr # "")
  /\ [][(op' = "method_str") =>
          /\ (retStr # "" => retStr' = retStr)
          /\ UNCHANGED <<global, pc, rng, err, probes, destIn, dest, written,
                         lastCall, nodeCalls, browserCalls, retFill, retSize>>]_vars

C7_Witness ==
  /\ op = "method_str"
  /\ rng.variant = "Node"
  /\ nodeCalls > 0
  /\ retStr = "crypto.randomFillSync"

\* C8: once new has returned an OsRng, its variant and handle never change
\* and the environment is never probed again.
C8_VariantFixed ==
  [][pc = "ok" => (pc' = "ok" /\ rng' = rng /\ probes' = probes)]_vars

C8_Witness ==
  /\ pc = "ok"
  /\ nodeCalls + browserCalls = MaxFills
  /\ retStr # ""
  /\ rng = New(global).rng
  /\ probes = New(global).probes

\* C9: the delegates are invoked only by fill_chunk; each fill_chunk call
\* invokes the bound variant's delegate exactly once, on the bound handle
\* and with the whole destination buffer, and never the other delegate.
C9_DelegatesOnlyInFill ==
  [][/\ (op' # "fill_chunk") =>
          (nodeCalls' = nodeCalls /\ browserCalls' = browserCalls
             /\ lastCall' = lastCall)
     /\ (op' = "fill_chunk" /\ rng.variant = "Node") =>
          /\ nodeCalls' = nodeCalls + 1
          /\ browserCalls' = browserCalls
          /\ lastCall' = [fn |-> "randomFillSync", handle |-> rng.handle,
                          buf |-> destIn']
     /\ (op' = "fill_chunk" /\ rng.variant = "Browser") =>
          /\ browserCalls' = browserCalls + 1
          /\ nodeCalls' = nodeCalls
          /\ lastCall' = [fn |-> "getRandomValues", handle |-> rng.handle,
                          buf |-> destIn']]_vars

C9_Witness ==
  /\ op = "fill_chunk"
  /\ rng.variant = "Browser"
  /\ browserCalls = 2 /\ nodeCalls = 0
  /\ lastCall.fn = "getRandomValues"
  /\ Len(lastCall.buf) > 0

\* C10: when the global object comes back undefined, new stops at the
\* assertion before any `self` or `crypto` probe and before require: it
\* returns neither an Err nor an OsRng.  Every Err new returns has kind
\* Unavailable and arises only with `self` present.
C10_AssertBeforeProbes ==
  /\ (Constructed /\ ~HasThis) =>
        /\ pc = "panic"
        /\ rng = NoRng
        /\ err = NoErr
        /\ probes = <<"this">>
  /\ (pc = "err") =>
        /\ err.kind = "Unavailable"
        /\ HasThis /\ HasSelf
  /\ (Constructed /\ err # NoErr) => pc = "err"

C10_Witness ==
  /\ pc = "panic" /\ op = "new"
  /\ ~HasThis /\ HasSelf /\ HasCrypto /\ HasFn
  /\ probes = <<"this">>

====
